---- MODULE Spec2Model ----
(***************************************************************************)
(* Sales dashboard: the useSalesData hook (record fetch, filter state,     *)
(* filteredData, target overrides, summary) and the useTargets hook.       *)
(*                                                                         *)
(* JavaScript numbers are modelled as fractions [n, d]: d > 0 is a finite  *)
(* value in lowest terms, 0/0 is NaN, 1/0 is Infinity, -1/0 is -Infinity.  *)
(* Strings that the code inspects by position (dates, months) are tuples   *)
(* of one-character strings.                                               *)
(***************************************************************************)
EXTENDS Integers, Sequences, FiniteSets, TLC

VARIABLES
    store,          \* table sales_data of the remote store: sequence of SalesRecord
    branch_targets, \* table branch_targets: function on <<branch_name, month>>
    salesData,      \* useState<SalesRecord[]>        (part_000:18)
    isLoading,      \* useState(true)                 (part_000:19)
    error,          \* useState<string | null>        (part_000:20)
    filters,        \* useState<DashboardFilterState> (part_000:25)
    targetsMap,     \* useState<Record<string,number>> (part_000:155)
    fetches,        \* fetchData calls awaiting the store's answer
    targetReqs,     \* getTargets promises not yet resolved: sequence of months
    userEmail,      \* the e-mail of the signed-in user, as useAuth holds it
    upload,         \* the uploadData call: its position, input and requests
    targetsCall     \* the updateTargets / initializeDefaultTargets call

vars == <<store, branch_targets, salesData, isLoading, error, filters,
          targetsMap, fetches, targetReqs, userEmail, upload, targetsCall>>

-----------------------------------------------------------------------------
(* Bounds of the model *)

MaxData == 2        \* records handed to calculateMetrics in SpecMetrics
MaxRecords == 2     \* records held by salesData in SpecFilter
MaxStore == 2       \* records of the remote table in Spec
MaxFetches == 2     \* fetchData calls in flight at once
MaxTargetReqs == 2  \* getTargets promises pending at once
MaxUpload == 3      \* records handed to uploadData in SpecWrite

-----------------------------------------------------------------------------
(* JavaScript numbers *)

RECURSIVE GCD(_, _)
GCD(a, b) == IF b = 0 THEN a ELSE GCD(b, a % b)

Abs(x) == IF x < 0 THEN -x ELSE x

Sign(x) == IF x < 0 THEN -1 ELSE IF x > 0 THEN 1 ELSE 0

NaN == [n |-> 0, d |-> 0]

Infinity == [n |-> 1, d |-> 0]

NegInfinity == [n |-> -1, d |-> 0]

\* the finite value n/d (d # 0), in lowest terms with a positive denominator
Frac(n, d) ==
    LET g == GCD(Abs(n), Abs(d))
    IN  [n |-> Sign(d) * (n \div g), d |-> Abs(d) \div g]

Num(i) == [n |-> i, d |-> 1]

IsNaN(x) == x.d = 0 /\ x.n = 0

IsFinite(x) == x.d > 0

\* x + y
Add(x, y) ==
    IF IsNaN(x) \/ IsNaN(y) THEN NaN
    ELSE IF x.d = 0 /\ y.d = 0 THEN (IF x.n = y.n THEN x ELSE NaN)
    ELSE IF x.d = 0 THEN x
    ELSE IF y.d = 0 THEN y
    ELSE Frac(x.n * y.d + y.n * x.d, x.d * y.d)

\* x * y
Mul(x, y) ==
    IF IsNaN(x) \/ IsNaN(y) THEN NaN
    ELSE IF x.d = 0 \/ y.d = 0
         THEN (IF x.n = 0 \/ y.n = 0 THEN NaN
               ELSE [n |-> Sign(x.n) * Sign(y.n), d |-> 0])
    ELSE Frac(x.n * y.n, x.d * y.d)

\* x / y: a zero divisor gives NaN (0/0) or an infinity
Div(x, y) ==
    IF IsNaN(x) \/ IsNaN(y) THEN NaN
    ELSE IF x.d = 0 /\ y.d = 0 THEN NaN
    ELSE IF x.d = 0 THEN [n |-> x.n * (IF y.n < 0 THEN -1 ELSE 1), d |-> 0]
    ELSE IF y.d = 0 THEN Num(0)
    ELSE IF y.n = 0 THEN (IF x.n = 0 THEN NaN ELSE [n |-> Sign(x.n), d |-> 0])
    ELSE Frac(x.n * y.d, x.d * y.n)

\* x > 0: false for NaN
GtZero(x) == x.n > 0

-----------------------------------------------------------------------------
(* Field values as they arrive from the store, and Number(value) *)

NumV(i) == [t |-> "number", v |-> i]

NumericString(i) == [t |-> "numeric string", v |-> i]

NullV == [t |-> "null", v |-> 0]

UndefinedV == [t |-> "undefined", v |-> 0]

TextV == [t |-> "non-numeric string", v |-> 0]

Number(x) ==
    CASE x.t = "number" -> Num(x.v)
      [] x.t = "numeric string" -> Num(x.v)
      [] x.t = "null" -> Num(0)
      [] OTHER -> NaN

-----------------------------------------------------------------------------
(* The fixed enumerations of '@/types/sales' *)

BRANCHES == <<"A", "B">>

CHANNELS == <<"X", "Y">>

Range(s) == {s[i] : i \in 1..Len(s)}

SalesRecord(date, branch, channel, sales, orders, target) ==
    [date |-> date, branch_name |-> branch, channel_name |-> channel,
     sales_value |-> sales, orders_count |-> orders, target_value |-> target]

-----------------------------------------------------------------------------
(* calculateMetrics *)

\* array.reduce((sum, x) => sum + f(x), 0), left to right, over the values f(x)
RECURSIVE ReduceFrom(_, _)
ReduceFrom(values, k) ==
    IF k = 0 THEN Num(0) ELSE Add(ReduceFrom(values, k - 1), values[k])

Reduce(values) == ReduceFrom(values, Len(values))

SalesOf(d) == Number(d.sales_value)

OrdersOf(d) == Number(d.orders_count)

TargetOf(d) == Number(d.target_value)

\* target > 0 ? (sales / target) * 100 : 0
Achievement(sales, target) ==
    IF GtZero(target) THEN Mul(Div(sales, target), Num(100)) ELSE Num(0)

\* orders > 0 ? sales / orders : 0
Aov(sales, orders) ==
    IF GtZero(orders) THEN Div(sales, orders) ELSE Num(0)

ChannelMetricsOf(branchData, channel) ==
    LET channelData == SelectSeq(branchData, LAMBDA d : d.channel_name = channel)
        sales == Reduce([k \in 1..Len(channelData) |-> SalesOf(channelData[k])])
        orders == Reduce([k \in 1..Len(channelData) |-> OrdersOf(channelData[k])])
        target == Reduce([k \in 1..Len(channelData) |-> TargetOf(channelData[k])])
    IN  [channelName |-> channel,
         sales |-> sales,
         orders |-> orders,
         target |-> target,
         achievementPercentage |-> Achievement(sales, target),
         aov |-> Aov(sales, orders)]

ChannelSales(c) == c.sales

ChannelOrders(c) == c.orders

ChannelTarget(c) == c.target

\* faulty variant: || in place of ??, so an override of 0 falls back to the channel sum
BranchTotalTargetOr(tmap, branch, channels) ==
    IF branch \in DOMAIN tmap /\ tmap[branch] # Num(0)
    THEN tmap[branch]
    ELSE Reduce([k \in 1..Len(channels) |-> ChannelTarget(channels[k])])

\* targetsMap[branch] ?? channels.reduce((sum, c) => sum + c.target, 0)
BranchTotalTarget(tmap, branch, channels) ==
    IF branch \in DOMAIN tmap
    THEN tmap[branch]
    ELSE Reduce([k \in 1..Len(channels) |-> ChannelTarget(channels[k])])

\* faulty variant: the branch aov divides by the target in place of the orders
BranchMetricsAovByTarget(data, tmap, branch) ==
    LET branchData == SelectSeq(data, LAMBDA d : d.branch_name = branch)
        channels == [j \in 1..Len(CHANNELS) |->
                        ChannelMetricsOf(branchData, CHANNELS[j])]
        totalSales == Reduce([k \in 1..Len(channels) |-> ChannelSales(channels[k])])
        totalOrders == Reduce([k \in 1..Len(channels) |-> ChannelOrders(channels[k])])
        totalTarget == BranchTotalTarget(tmap, branch, channels)
    IN  [branchName |-> branch,
         totalSales |-> totalSales,
         totalOrders |-> totalOrders,
         totalTarget |-> totalTarget,
         achievementPercentage |-> Achievement(totalSales, totalTarget),
         aov |-> Aov(totalSales, totalTarget),
         channels |-> channels]

BranchMetricsOf(data, tmap, branch) ==
    LET branchData == SelectSeq(data, LAMBDA d : d.branch_name = branch)
        channels == [j \in 1..Len(CHANNELS) |->
                        ChannelMetricsOf(branchData, CHANNELS[j])]
        totalSales == Reduce([k \in 1..Len(channels) |-> ChannelSales(channels[k])])
        totalOrders == Reduce([k \in 1..Len(channels) |-> ChannelOrders(channels[k])])
        totalTarget == BranchTotalTarget(tmap, branch, channels)
    IN  [branchName |-> branch,
         totalSales |-> totalSales,
         totalOrders |-> totalOrders,
         totalTarget |-> totalTarget,
         achievementPercentage |-> Achievement(totalSales, totalTarget),
         aov |-> Aov(totalSales, totalOrders),
         channels |-> channels]

\* faulty variant: the overall sales sum reads the orders of each branch
BranchSalesFromOrders(b) == b.totalOrders

BranchSales(b) == b.totalSales

BranchOrders(b) == b.totalOrders

BranchTarget(b) == b.totalTarget

\* the branch names of the records, in order of first appearance
RECURSIVE Discovered(_)
Discovered(data) ==
    IF data = <<>> THEN <<>>
    ELSE LET rest == Discovered(SubSeq(data, 1, Len(data) - 1))
             b == data[Len(data)].branch_name
         IN  IF b \in Range(rest) THEN rest ELSE Append(rest, b)

\* faulty variant: the branches are grouped from the records, not taken from BRANCHES
calculateMetricsDiscovered(data, tmap) ==
    LET found == Discovered(data)
        branchMetrics == [i \in 1..Len(found) |-> BranchMetricsOf(data, tmap, found[i])]
        totalSales == Reduce([k \in 1..Len(branchMetrics) |-> BranchSales(branchMetrics[k])])
        totalOrders == Reduce([k \in 1..Len(branchMetrics) |-> BranchOrders(branchMetrics[k])])
        totalTarget == Reduce([k \in 1..Len(branchMetrics) |-> BranchTarget(branchMetrics[k])])
    IN  [totalSales |-> totalSales,
         totalOrders |-> totalOrders,
         totalTarget |-> totalTarget,
         overallAchievement |-> Achievement(totalSales, totalTarget),
         overallAov |-> Aov(totalSales, totalOrders),
         branchMetrics |-> branchMetrics]

calculateMetrics(data, tmap) ==
    LET branchMetrics == [i \in 1..Len(BRANCHES) |->
                             BranchMetricsOf(data, tmap, BRANCHES[i])]
        totalSales == Reduce([k \in 1..Len(branchMetrics) |-> BranchSales(branchMetrics[k])])
        totalOrders == Reduce([k \in 1..Len(branchMetrics) |-> BranchOrders(branchMetrics[k])])
        totalTarget == Reduce([k \in 1..Len(branchMetrics) |-> BranchTarget(branchMetrics[k])])
    IN  [totalSales |-> totalSales,
         totalOrders |-> totalOrders,
         totalTarget |-> totalTarget,
         overallAchievement |-> Achievement(totalSales, totalTarget),
         overallAov |-> Aov(totalSales, totalOrders),
         branchMetrics |-> branchMetrics]

-----------------------------------------------------------------------------
(* Dates: record.date is a string, filters.dateRange holds Date objects *)

DigitChars == <<"0", "1", "2", "3", "4", "5", "6", "7", "8", "9">>

IsDigit(c) == c \in Range(DigitChars)

DigitValues ==
    [c \in Range(DigitChars) |-> (CHOOSE i \in 1..Len(DigitChars) : DigitChars[i] = c) - 1]

DigitVal(c) == DigitValues[c]

\* the characters of the modelled strings in code-unit order ('-' < '0' < .. < '9')
CharOrder == <<"-">> \o DigitChars

CharRanks ==
    [c \in Range(CharOrder) |-> CHOOSE i \in 1..Len(CharOrder) : CharOrder[i] = c]

CharRank(c) == CharRanks[c]

\* a Date object: a day (local midnight, counted in days since 1970-01-01),
\* Invalid Date, or undefined where the code allows it
DateOf(day) == [k |-> "date", day |-> day]

InvalidDate == [k |-> "invalid", day |-> 0]

UndefinedDate == [k |-> "undefined", day |-> 0]

IsLeap(y) == (y % 4 = 0 /\ y % 100 # 0) \/ y % 400 = 0

DaysInMonth(y, m) ==
    IF m = 2 THEN (IF IsLeap(y) THEN 29 ELSE 28)
    ELSE IF m \in {4, 6, 9, 11} THEN 30 ELSE 31

\* days since 1970-01-01 of the civil date y-m-d
DaysFromCivil(y, m, d) ==
    LET yy == IF m <= 2 THEN y - 1 ELSE y
        era == yy \div 400
        yoe == yy - era * 400
        mp == IF m > 2 THEN m - 3 ELSE m + 9
        doy == (153 * mp + 2) \div 5 + d - 1
        doe == yoe * 365 + yoe \div 4 - yoe \div 100 + doy
    IN  era * 146097 + doe - 719468

\* parseISO of a date-only string: YYYY-MM-DD with a real month and day,
\* anything else is Invalid Date
parseISO(s) ==
    IF /\ Len(s) = 10
       /\ s[5] = "-" /\ s[8] = "-"
       /\ \A i \in {1, 2, 3, 4, 6, 7, 9, 10} : IsDigit(s[i])
    THEN LET y == 1000 * DigitVal(s[1]) + 100 * DigitVal(s[2])
                  + 10 * DigitVal(s[3]) + DigitVal(s[4])
             m == 10 * DigitVal(s[6]) + DigitVal(s[7])
             d == 10 * DigitVal(s[9]) + DigitVal(s[10])
         IN  IF m \in 1..12 /\ d >= 1 /\ d <= DaysInMonth(y, m)
             THEN DateOf(DaysFromCivil(y, m, d))
             ELSE InvalidDate
    ELSE InvalidDate

\* getDay of a valid date: 0 = Sunday .. 6 = Saturday (1970-01-01 was a Thursday)
getDay(date) == (date.day + 4) % 7

\* faulty variant: the end of the interval is excluded
isWithinIntervalOpenEnd(date, start, end) ==
    /\ date.k = "date"
    /\ date.day >= start.day
    /\ date.day < end.day

\* isWithinInterval(date, {start, end}) for start <= end: false for Invalid Date
isWithinInterval(date, start, end) ==
    /\ date.k = "date"
    /\ date.day >= start.day
    /\ date.day <= end.day

\* string.startsWith(prefix)
StartsWith(s, prefix) ==
    /\ Len(prefix) <= Len(s)
    /\ \A i \in 1..Len(prefix) : s[i] = prefix[i]

-----------------------------------------------------------------------------
(* Filter state and filteredData *)

\* a missing date (null, undefined or ""): falsy
NoDateString == <<>>

\* selectedMonth undefined (or ""): falsy
NoMonth == <<>>

NoRange == [defined |-> FALSE, from |-> UndefinedDate, to |-> UndefinedDate]

RangeOf(from, to) == [defined |-> TRUE, from |-> from, to |-> to]

FilterState(dateRange, selectedMonth, branches, channels, daysOfWeek) ==
    [dateRange |-> dateRange, selectedMonth |-> selectedMonth,
     branches |-> branches, channels |-> channels, daysOfWeek |-> daysOfWeek]

\* the state useState starts filters with
NoFilters == FilterState(NoRange, NoMonth, {}, {}, {})

\* filters.dateRange?.from is set
HasFrom(f) == f.dateRange.defined /\ f.dateRange.from.k = "date"

\* filters.dateRange.to || filters.dateRange.from
RangeEnd(f) ==
    IF f.dateRange.to.k = "date" THEN f.dateRange.to ELSE f.dateRange.from

PassesDateRange(record, f) ==
    HasFrom(f) =>
        isWithinInterval(parseISO(record.date), f.dateRange.from, RangeEnd(f))

PassesMonth(record, f) ==
    f.selectedMonth # NoMonth => StartsWith(record.date, f.selectedMonth)

PassesBranch(record, f) ==
    f.branches # {} => record.branch_name \in f.branches

PassesChannel(record, f) ==
    f.channels # {} => record.channel_name \in f.channels

\* faulty variant: weekdays counted from Monday = 0
PassesDayOfWeekFromMonday(record, f) ==
    f.daysOfWeek # {} =>
        LET recordDate == parseISO(record.date)
        IN  recordDate.k = "date" /\ (getDay(recordDate) + 6) % 7 \in f.daysOfWeek

\* getDay(Invalid Date) is NaN, which no list of weekdays includes
PassesDayOfWeek(record, f) ==
    f.daysOfWeek # {} =>
        LET recordDate == parseISO(record.date)
        IN  recordDate.k = "date" /\ getDay(recordDate) \in f.daysOfWeek

\* the callback of salesData.filter
RecordPasses(record, f) ==
    /\ record.date # NoDateString
    /\ PassesDateRange(record, f)
    /\ PassesMonth(record, f)
    /\ PassesBranch(record, f)
    /\ PassesChannel(record, f)
    /\ PassesDayOfWeek(record, f)

\* faulty variant: with no filter active the records are handed on as they are
FilterRecordsFastPath(data, f) ==
    IF f = NoFilters THEN data
    ELSE SelectSeq(data, LAMBDA record : RecordPasses(record, f))

FilterRecords(data, f) == SelectSeq(data, LAMBDA record : RecordPasses(record, f))

filteredData == FilterRecords(salesData, filters)

NullSummary == [null |-> TRUE]

\* faulty variant: null when the filtered records are empty
SummarizeFiltered(data, f, tmap) ==
    IF Len(FilterRecords(data, f)) = 0 THEN NullSummary
    ELSE calculateMetrics(FilterRecords(data, f), tmap)

Summarize(data, f, tmap) ==
    IF Len(data) = 0 THEN NullSummary
    ELSE calculateMetrics(FilterRecords(data, f), tmap)

summary == Summarize(salesData, filters, targetsMap)

-----------------------------------------------------------------------------
(* The remote store *)

Min(a, b) == IF a < b THEN a ELSE b

\* a <= b in code-unit order
StrLeq(a, b) ==
    \/ StartsWith(b, a)
    \/ \E k \in 1..Min(Len(a), Len(b)) :
          /\ \A i \in 1..(k - 1) : a[i] = b[i]
          /\ CharRank(a[k]) < CharRank(b[k])

\* x may come before y under .order('date', { ascending: false }): nulls first
DescOrdered(x, y) ==
    \/ x = NoDateString
    \/ y # NoDateString /\ StrLeq(y, x)

IsDateDesc(s) ==
    \A i \in 1..Len(s) : \A j \in 1..Len(s) :
        i < j => DescOrdered(s[i].date, s[j].date)

Perms(n) == {p \in [1..n -> 1..n] : \A i \in 1..n : \A j \in 1..n : p[i] = p[j] => i = j}

\* the answers the store may give to select('*').order('date', desc):
\* every row once, by date descending, ties in any order
QueryResults(table) ==
    {r \in {[i \in 1..Len(table) |-> table[p[i]]] : p \in Perms(Len(table))} :
        IsDateDesc(r)}

BoundedSeq(S, n) == UNION {[1..k -> S] : k \in 0..n}

\* the rows of branch_targets for a month, as the map the effect builds
TargetRows(table, month) ==
    [b \in {k[1] : k \in {k \in DOMAIN table : k[2] = month}} |-> table[<<b, month>>]]

EmptyMap == [b \in {} |-> Num(0)]

-----------------------------------------------------------------------------
(* Values the model draws its inputs from *)

D0229 == <<"2", "0", "2", "4", "-", "0", "2", "-", "2", "9">>  \* a Thursday

D0301 == <<"2", "0", "2", "4", "-", "0", "3", "-", "0", "1">>  \* a Friday

D0302 == <<"2", "0", "2", "4", "-", "0", "3", "-", "0", "2">>  \* a Saturday

D0399 == <<"2", "0", "2", "4", "-", "0", "3", "-", "9", "9">>  \* no such day

M02 == <<"2", "0", "2", "4", "-", "0", "2">>

M03 == <<"2", "0", "2", "4", "-", "0", "3">>

\* what getCurrentMonth returns: the clock is in March 2024
CurrentMonth == M03

\* records with every kind of numeric field, all on one valid day
MetricsRecords ==
    { SalesRecord(D0301, "A", "X", NumV(100), NumV(2), NumV(50)),
      SalesRecord(D0301, "A", "Y", NumV(50), NumV(1), NumV(0)),
      SalesRecord(D0301, "B", "X", NumV(0), NumV(0), NumV(0)),
      SalesRecord(D0301, "B", "Y", NumV(30), NumV(0), NumV(20)),
      SalesRecord(D0301, "B", "Y", NumericString(70), NullV, NumericString(25)),
      SalesRecord(D0301, "A", "X", UndefinedV, NumV(1), NumV(10)),
      SalesRecord(D0301, "B", "X", NumV(40), TextV, UndefinedV) }

TargetValues == {Num(0), Num(1000)}

TargetMaps == UNION {[S -> TargetValues] : S \in SUBSET Range(BRANCHES)}

\* records with every kind of date, branch and channel
FilterRecordSet ==
    { SalesRecord(D0229, "A", "X", NumV(10), NumV(1), NumV(5)),
      SalesRecord(D0301, "A", "Y", NumV(10), NumV(1), NumV(5)),
      SalesRecord(D0302, "B", "X", NumV(10), NumV(1), NumV(5)),
      SalesRecord(D0301, "B", "Y", NumV(10), NumV(1), NumV(5)),
      SalesRecord(D0399, "A", "X", NumV(10), NumV(1), NumV(5)),
      SalesRecord(NoDateString, "B", "Y", NumV(10), NumV(1), NumV(5)) }

Day0229 == parseISO(D0229)

Day0301 == parseISO(D0301)

Day0302 == parseISO(D0302)

\* the ranges a day picker can hold: from <= to, either end possibly unset
DateRanges ==
    { NoRange,
      RangeOf(Day0301, UndefinedDate),
      RangeOf(Day0229, Day0301),
      RangeOf(Day0301, Day0302),
      RangeOf(Day0302, Day0302),
      RangeOf(UndefinedDate, Day0301) }

Months == {NoMonth, M02, M03}

BranchSets == {{}, {"A"}, {"B"}}

ChannelSets == {{}, {"X"}, {"Y"}}

DaySets == {{}, {5}, {4, 6}}

FilterStates ==
    {FilterState(r, m, b, c, w) :
        r \in DateRanges, m \in Months, b \in BranchSets, c \in ChannelSets,
        w \in DaySets}

HookRecords ==
    { SalesRecord(D0301, "A", "X", NumV(100), NumV(2), NumV(50)),
      SalesRecord(D0229, "B", "Y", NumV(50), NumV(1), NumV(0)) }

EmptyTable == [k \in {} |-> Num(0)]

HookTargetTables ==
    { EmptyTable,
      [k \in {<<"A", M03>>} |-> Num(1000)],
      [k \in {<<"A", M02>>, <<"B", M03>>} |-> IF k[1] = "A" THEN Num(0) ELSE Num(1000)] }

HookFilters ==
    {FilterState(NoRange, m, b, {}, {}) : m \in Months, b \in {{}, {"A"}}}

NoError == "null"

FetchErrorMessage == "Failed to fetch data"

\* what the store client reports for a failed query: an Error instance or a
\* plain error object, each with a message
FetchFailures ==
    { [instanceOfError |-> TRUE, message |-> "JWT expired"],
      [instanceOfError |-> FALSE, message |-> "JWT expired"] }

\* err instanceof Error ? err.message : 'Failed to fetch data'
MessageOf(err) == IF err.instanceOfError THEN err.message ELSE FetchErrorMessage

-----------------------------------------------------------------------------
(* The signed-in user and the privileged flag *)

UpperCase == <<"A", "B", "C", "D", "E", "F", "G", "H", "I", "J", "K", "L", "M",
               "N", "O", "P", "Q", "R", "S", "T", "U", "V", "W", "X", "Y", "Z">>

LowerCase == <<"a", "b", "c", "d", "e", "f", "g", "h", "i", "j", "k", "l", "m",
               "n", "o", "p", "q", "r", "s", "t", "u", "v", "w", "x", "y", "z">>

\* string.toLowerCase()
toLowerCase(s) ==
    [i \in 1..Len(s) |->
        IF s[i] \in Range(UpperCase)
        THEN LowerCase[CHOOSE k \in 1..Len(UpperCase) : UpperCase[k] = s[i]]
        ELSE s[i]]

\* 'admin@cstore.com'
AdminAddress ==
    <<"a", "d", "m", "i", "n", "@", "c", "s", "t", "o", "r", "e", ".", "c", "o", "m">>

\* no user, or a user without an e-mail: falsy
UndefinedEmail == <<>>

MixedCaseAdminEmail ==
    <<"A", "d", "m", "i", "n", "@", "C", "S", "t", "o", "r", "e", ".", "c", "o", "m">>

ViewerEmail ==
    <<"v", "i", "e", "w", "@", "c", "s", "t", "o", "r", "e", ".", "c", "o", "m">>

Users == {UndefinedEmail, AdminAddress, MixedCaseAdminEmail, ViewerEmail}

isAdmin(email) ==
    IF email = UndefinedEmail THEN FALSE
    ELSE toLowerCase(email) = AdminAddress

\* const { isAdmin: userIsAdmin } = useAuth()
userIsAdmin == isAdmin(userEmail)

\* faulty variant: the upload control is rendered for every user
UploadOfferedToAll == TRUE

\* userIsAdmin ? <ExcelUpload onUpload={uploadData} /> : the viewer notice
UploadOffered == userIsAdmin

\* if (!isAdmin) { navigate('/'); return null; } else <TargetSettings />
TargetEditorShown == userIsAdmin

-----------------------------------------------------------------------------
(* useSalesData: state after the first render and its effects *)

\* no uploadData call has been made
NoUpload ==
    [pc |-> "idle", records |-> <<>>, i |-> 0, before |-> <<>>, log |-> <<>>,
     result |-> "none"]

\* no call of the target editor has been made
NoTargetsCall ==
    [pc |-> "idle", op |-> "none", rows |-> EmptyTable, before |-> EmptyTable,
     result |-> "none"]

\* the dashboard of a user who is not privileged: the write operations are
\* not offered, the two tables stay as they are
Init ==
    /\ store \in BoundedSeq(HookRecords, MaxStore)
    /\ branch_targets \in HookTargetTables
    /\ salesData = <<>>
    /\ isLoading = TRUE
    /\ error = NoError
    /\ filters = NoFilters
    /\ targetsMap = EmptyMap
    /\ fetches = 1                \* useEffect(() => { fetchData() })
    /\ targetReqs = <<NoMonth>>   \* the effect's getTargets(filters.selectedMonth)
    /\ userEmail = ViewerEmail
    /\ upload = NoUpload
    /\ targetsCall = NoTargetsCall

\* fetchData up to its await: setIsLoading(true), setError(null), the query
StartFetch ==
    /\ fetches < MaxFetches
    /\ isLoading' = TRUE
    /\ error' = NoError
    /\ fetches' = fetches + 1

\* fetchData is called (refresh): up to the await
FetchData ==
    /\ StartFetch
    /\ UNCHANGED <<store, branch_targets, salesData, filters, targetsMap, targetReqs,
                   userEmail, upload, targetsCall>>

\* a fetchData call completes: when uploadData awaits its refetch this may be
\* that call, and must be when no other fetchData call is in flight; uploadData
\* then returns true
FetchCompletes ==
    \/ /\ upload.pc = "refetch"
       /\ upload' = [upload EXCEPT !.pc = "idle", !.result = "true"]
    \/ /\ upload.pc # "refetch" \/ fetches > 1
       /\ upload' = upload

\* the store answers a fetchData call with its rows
FetchOk ==
    /\ fetches > 0
    /\ \E records \in QueryResults(store) : salesData' = records
    /\ isLoading' = FALSE
    /\ fetches' = fetches - 1
    /\ FetchCompletes
    /\ UNCHANGED <<store, branch_targets, error, filters, targetsMap, targetReqs,
                   userEmail, targetsCall>>

\* faulty variant: a failed fetch drops the records held
FetchFailClears ==
    /\ fetches > 0
    /\ \E err \in FetchFailures : error' = MessageOf(err)
    /\ salesData' = <<>>
    /\ isLoading' = FALSE
    /\ fetches' = fetches - 1
    /\ FetchCompletes
    /\ UNCHANGED <<store, branch_targets, filters, targetsMap, targetReqs,
                   userEmail, targetsCall>>

\* the store answers a fetchData call with an error
FetchFail ==
    /\ fetches > 0
    /\ \E err \in FetchFailures : error' = MessageOf(err)
    /\ isLoading' = FALSE
    /\ fetches' = fetches - 1
    /\ FetchCompletes
    /\ UNCHANGED <<store, branch_targets, salesData, filters, targetsMap, targetReqs,
                   userEmail, targetsCall>>

\* setFilters(f), and the effect that asks for the targets of a new month
SetFilters(f) ==
    /\ filters' = f
    /\ IF f.selectedMonth # filters.selectedMonth
       THEN /\ Len(targetReqs) < MaxTargetReqs
            /\ targetReqs' = Append(targetReqs, f.selectedMonth)
       ELSE UNCHANGED targetReqs
    /\ UNCHANGED <<store, branch_targets, salesData, isLoading, error, targetsMap,
                   fetches, userEmail, upload, targetsCall>>

RemoveAt(s, i) == [j \in 1..(Len(s) - 1) |-> IF j < i THEN s[j] ELSE s[j + 1]]

\* month || getCurrentMonth()
TargetMonth(month) == IF month = NoMonth THEN CurrentMonth ELSE month

\* a getTargets promise resolves with the month's rows; .then sets targetsMap
TargetsOk(i) ==
    /\ i \in 1..Len(targetReqs)
    /\ targetsMap' = TargetRows(branch_targets, TargetMonth(targetReqs[i]))
    /\ targetReqs' = RemoveAt(targetReqs, i)
    /\ UNCHANGED <<store, branch_targets, salesData, isLoading, error, filters,
                   fetches, userEmail, upload, targetsCall>>

\* the query fails: getTargets catches and resolves with []
TargetsFail(i) ==
    /\ i \in 1..Len(targetReqs)
    /\ targetsMap' = EmptyMap
    /\ targetReqs' = RemoveAt(targetReqs, i)
    /\ UNCHANGED <<store, branch_targets, salesData, isLoading, error, filters,
                   fetches, userEmail, upload, targetsCall>>

Next ==
    \/ FetchData
    \/ FetchOk
    \/ FetchFail
    \/ \E f \in HookFilters : SetFilters(f)
    \/ \E i \in 1..MaxTargetReqs : TargetsOk(i)
    \/ \E i \in 1..MaxTargetReqs : TargetsFail(i)

Spec == Init /\ [][Next]_vars

-----------------------------------------------------------------------------
(* uploadData: each await is a step; the store applies a request as it answers *)

\* const CHUNK_SIZE = 500, scaled down so that an upload of MaxUpload records
\* takes more than one chunk
CHUNK_SIZE == 2

\* faulty variant: a chunk runs one record into the next chunk
SliceOverlapping(records, i) ==
    SubSeq(records, i + 1, Min(i + CHUNK_SIZE + 1, Len(records)))

\* records.slice(i, i + CHUNK_SIZE)
Slice(records, i) == SubSeq(records, i + 1, Min(i + CHUNK_SIZE, Len(records)))

\* a request of uploadData to the table sales_data
Request(op, rows) == [op |-> op, rows |-> rows]

\* the k-th row of a spreadsheet: rows differ from one another
UploadRecord(k) ==
    SalesRecord(CASE k % 3 = 1 -> D0302 [] k % 3 = 2 -> D0301 [] OTHER -> D0229,
                BRANCHES[1 + (k % 2)], CHANNELS[1 + ((k \div 2) % 2)],
                NumV(10 * k), NumV(k), NumV(5 * k))

UploadInputs == {[j \in 1..k |-> UploadRecord(j)] : k \in 0..MaxUpload}

\* uploadData(records) is called from the upload control, up to getSession
UploadData(records) ==
    /\ UploadOffered
    /\ upload.pc = "idle"
    /\ upload' = [pc |-> "getSession", records |-> records, i |-> 0,
                  before |-> store, log |-> <<>>, result |-> "none"]
    /\ UNCHANGED <<store, branch_targets, salesData, isLoading, error, filters,
                   targetsMap, fetches, targetReqs, userEmail, targetsCall>>

\* the catch block: toast, return false
UploadFails ==
    /\ upload' = [upload EXCEPT !.pc = "idle", !.result = "false"]
    /\ UNCHANGED <<store, branch_targets, salesData, isLoading, error, filters,
                   targetsMap, fetches, targetReqs, userEmail, targetsCall>>

\* getSession answers with a session: the delete is sent
SessionFound ==
    /\ upload.pc = "getSession"
    /\ upload' = [upload EXCEPT !.pc = "delete"]
    /\ UNCHANGED <<store, branch_targets, salesData, isLoading, error, filters,
                   targetsMap, fetches, targetReqs, userEmail, targetsCall>>

\* if (!session) throw
NoSession ==
    /\ upload.pc = "getSession"
    /\ UploadFails

\* the head of the for loop at index i, with the requests made so far: the
\* next chunk is sent, or the loop is over and fetchData is called and awaited
LoopOrRefetch(i, log) ==
    IF i < Len(upload.records)
    THEN /\ upload' = [upload EXCEPT !.pc = "insert", !.i = i, !.log = log]
         /\ UNCHANGED <<isLoading, error, fetches>>
    ELSE /\ StartFetch
         /\ upload' = [upload EXCEPT !.pc = "refetch", !.i = i,
                                     !.log = Append(log, Request("select", <<>>))]

\* the delete removes every row (generated ids are never the nil uuid)
DeleteOk ==
    /\ upload.pc = "delete"
    /\ store' = <<>>
    /\ LoopOrRefetch(0, Append(upload.log, Request("delete", <<>>)))
    /\ UNCHANGED <<branch_targets, salesData, filters, targetsMap, targetReqs,
                   userEmail, targetsCall>>

\* if (deleteError) throw deleteError
DeleteFail ==
    /\ upload.pc = "delete"
    /\ UploadFails

\* the insert of the chunk at index i adds its rows; i += CHUNK_SIZE
InsertOk ==
    /\ upload.pc = "insert"
    /\ LET chunk == Slice(upload.records, upload.i)
       IN  /\ store' = store \o chunk
           /\ LoopOrRefetch(upload.i + CHUNK_SIZE,
                            Append(upload.log, Request("insert", chunk)))
    /\ UNCHANGED <<branch_targets, salesData, filters, targetsMap, targetReqs,
                   userEmail, targetsCall>>

\* if (insertError) throw insertError
InsertFail ==
    /\ upload.pc = "insert"
    /\ UploadFails

-----------------------------------------------------------------------------
(* useTargets: the write operations of the target editor *)

\* upsert(rows, { onConflict: 'branch_name,month' })
Upsert(table, rows) ==
    [k \in DOMAIN table \cup DOMAIN rows |->
        IF k \in DOMAIN rows THEN rows[k] ELSE table[k]]

\* targets.map(t => ({ branch_name, target_value, month: targetMonth }))
UpsertData(targets, month) ==
    [k \in {<<b, TargetMonth(month)>> : b \in DOMAIN targets} |-> targets[k[1]]]

\* BRANCHES.map(branch => ({ branchName: branch, targetValue: 0 }))
DefaultTargets == [b \in Range(BRANCHES) |-> Num(0)]

\* the targets the editor submits
EditorTargets == {[b \in {"A"} |-> Num(500)]}

EditorMonths == {NoMonth, M02}

\* a write call leaves its synchronous part with the upsert sent
SendUpsert(op, rows) ==
    /\ targetsCall' = [pc |-> "upsert", op |-> op, rows |-> rows,
                       before |-> branch_targets, result |-> "none"]
    /\ UNCHANGED <<store, branch_targets, salesData, isLoading, error, filters,
                   targetsMap, fetches, targetReqs, userEmail, upload>>

\* setTarget(branchName, targetValue, month)
SetTarget(branchName, targetValue, month) ==
    /\ TargetEditorShown
    /\ targetsCall.pc = "idle"
    /\ SendUpsert("setTarget",
                  UpsertData([b \in {branchName} |-> targetValue], month))

\* updateTargets(targets, month)
UpdateTargets(targets, month) ==
    /\ TargetEditorShown
    /\ targetsCall.pc = "idle"
    /\ SendUpsert("updateTargets", UpsertData(targets, month))

\* initializeDefaultTargets(), up to await getTargets(currentMonth)
InitializeDefaultTargets ==
    /\ TargetEditorShown
    /\ targetsCall.pc = "idle"
    /\ targetsCall' = [pc |-> "lookup", op |-> "initializeDefaultTargets",
                       rows |-> EmptyTable, before |-> branch_targets,
                       result |-> "none"]
    /\ UNCHANGED <<store, branch_targets, salesData, isLoading, error, filters,
                   targetsMap, fetches, targetReqs, userEmail, upload>>

\* if (existing.length === BRANCHES.length) return true; otherwise
\* updateTargets(defaultTargets, currentMonth)
AfterLookup(existingLength) ==
    /\ IF existingLength = Len(BRANCHES)
       THEN targetsCall' = [targetsCall EXCEPT !.pc = "idle", !.result = "true"]
       ELSE targetsCall' = [targetsCall EXCEPT
                               !.pc = "upsert",
                               !.rows = UpsertData(DefaultTargets, CurrentMonth)]
    /\ UNCHANGED <<store, branch_targets, salesData, isLoading, error, filters,
                   targetsMap, fetches, targetReqs, userEmail, upload>>

\* getTargets(currentMonth) resolves with the rows of the month
LookupOk ==
    /\ targetsCall.pc = "lookup"
    /\ AfterLookup(Cardinality(DOMAIN TargetRows(branch_targets, CurrentMonth)))

\* the lookup fails: getTargets catches and resolves with []
LookupFail ==
    /\ targetsCall.pc = "lookup"
    /\ AfterLookup(0)

\* the upsert is applied: return true
UpsertOk ==
    /\ targetsCall.pc = "upsert"
    /\ branch_targets' = Upsert(branch_targets, targetsCall.rows)
    /\ targetsCall' = [targetsCall EXCEPT !.pc = "idle", !.rows = EmptyTable,
                                          !.result = "true"]
    /\ UNCHANGED <<store, salesData, isLoading, error, filters, targetsMap, fetches,
                   targetReqs, userEmail, upload>>

\* if (upsertError) throw upsertError: toast, return false
UpsertFail ==
    /\ targetsCall.pc = "upsert"
    /\ targetsCall' = [targetsCall EXCEPT !.pc = "idle", !.rows = EmptyTable,
                                          !.result = "false"]
    /\ UNCHANGED <<store, branch_targets, salesData, isLoading, error, filters,
                   targetsMap, fetches, targetReqs, userEmail, upload>>

-----------------------------------------------------------------------------
(* The dashboard of any user, with the filters left alone and no targets set *)

WriteStores == BoundedSeq(HookRecords, 1)

\* after the first render, once the effect's getTargets(undefined) has resolved
InitUpload ==
    /\ store \in WriteStores
    /\ branch_targets = EmptyTable
    /\ salesData = <<>>
    /\ isLoading = TRUE
    /\ error = NoError
    /\ filters = NoFilters
    /\ targetsMap = EmptyMap
    /\ fetches = 1
    /\ targetReqs = <<>>
    /\ userEmail \in Users
    /\ upload = NoUpload
    /\ targetsCall = NoTargetsCall

NextUpload ==
    \/ FetchData
    \/ FetchOk
    \/ FetchFail
    \/ \E records \in UploadInputs : UploadData(records)
    \/ SessionFound
    \/ NoSession
    \/ DeleteOk
    \/ DeleteFail
    \/ InsertOk
    \/ InsertFail

SpecUpload == InitUpload /\ [][NextUpload]_vars

-----------------------------------------------------------------------------
(* The settings page of any user: the dashboard is not mounted *)

InitTargets ==
    /\ store = <<>>
    /\ branch_targets \in HookTargetTables
    /\ salesData = <<>>
    /\ isLoading = FALSE
    /\ error = NoError
    /\ filters = NoFilters
    /\ targetsMap = EmptyMap
    /\ fetches = 0
    /\ targetReqs = <<>>
    /\ userEmail \in Users
    /\ upload = NoUpload
    /\ targetsCall = NoTargetsCall

NextTargets ==
    \/ \E m \in EditorMonths : SetTarget("B", Num(500), m)
    \/ \E t \in EditorTargets : \E m \in EditorMonths : UpdateTargets(t, m)
    \/ InitializeDefaultTargets
    \/ LookupOk
    \/ LookupFail
    \/ UpsertOk
    \/ UpsertFail

SpecTargets == InitTargets /\ [][NextTargets]_vars

-----------------------------------------------------------------------------
(* Every operation a user can reach, on one stored record and one spreadsheet *)

GateRecord == SalesRecord(D0301, "A", "X", NumV(100), NumV(2), NumV(50))

GateTable == [k \in {<<"A", M03>>} |-> Num(1000)]

InitGate ==
    /\ store = <<GateRecord>>
    /\ branch_targets = GateTable
    /\ salesData = <<>>
    /\ isLoading = TRUE
    /\ error = NoError
    /\ filters = NoFilters
    /\ targetsMap = TargetRows(branch_targets, TargetMonth(NoMonth))
    /\ fetches = 1
    /\ targetReqs = <<>>
    /\ userEmail \in Users
    /\ upload = NoUpload
    /\ targetsCall = NoTargetsCall

NextGate ==
    \/ FetchOk
    \/ FetchFail
    \/ UploadData(<<UploadRecord(1), UploadRecord(2), UploadRecord(3)>>)
    \/ SessionFound
    \/ NoSession
    \/ DeleteOk
    \/ DeleteFail
    \/ InsertOk
    \/ InsertFail
    \/ SetTarget("B", Num(500), NoMonth)
    \/ UpdateTargets([b \in {"A"} |-> Num(500)], M02)
    \/ InitializeDefaultTargets
    \/ LookupOk
    \/ LookupFail
    \/ UpsertOk
    \/ UpsertFail

SpecGate == InitGate /\ [][NextGate]_vars

-----------------------------------------------------------------------------
(* calculateMetrics as a function of its two inputs *)

\* what the summary memo computes once records are held
metrics == calculateMetrics(filteredData, targetsMap)

\* the hook at rest before any record or target has arrived
InitPure ==
    /\ salesData = <<>>
    /\ targetsMap = EmptyMap
    /\ filters = NoFilters
    /\ store = <<>>
    /\ branch_targets = EmptyTable
    /\ isLoading = FALSE
    /\ error = NoError
    /\ fetches = 0
    /\ targetReqs = <<>>
    /\ userEmail = UndefinedEmail
    /\ upload = NoUpload
    /\ targetsCall = NoTargetsCall

\* setSalesData(records): the records of an answer of the store
SetSalesData(records) ==
    /\ salesData' = records
    /\ UNCHANGED <<store, branch_targets, isLoading, error, filters, targetsMap,
                   fetches, targetReqs, userEmail, upload, targetsCall>>

\* setTargetsMap(map)
SetTargetsMap(map) ==
    /\ targetsMap' = map
    /\ UNCHANGED <<store, branch_targets, salesData, isLoading, error, filters,
                   fetches, targetReqs, userEmail, upload, targetsCall>>

\* the record collections handed to calculateMetrics, by date descending
MetricsData == {s \in BoundedSeq(MetricsRecords, MaxData) : IsDateDesc(s)}

NextMetrics ==
    \/ \E records \in MetricsData : SetSalesData(records)
    \/ \E map \in TargetMaps : SetTargetsMap(map)

SpecMetrics == InitPure /\ [][NextMetrics]_vars

-----------------------------------------------------------------------------
(* filteredData as a function of the records and the filter state *)

\* one control of the filter bar changes its field of the filter state
ChangeFilter(f) ==
    /\ filters' = f
    /\ UNCHANGED <<store, branch_targets, salesData, isLoading, error, targetsMap,
                   fetches, targetReqs, userEmail, upload, targetsCall>>

SetDateRange(r) == ChangeFilter([filters EXCEPT !.dateRange = r])

SetSelectedMonth(m) == ChangeFilter([filters EXCEPT !.selectedMonth = m])

SetBranches(b) == ChangeFilter([filters EXCEPT !.branches = b])

SetChannels(c) == ChangeFilter([filters EXCEPT !.channels = c])

SetDaysOfWeek(w) == ChangeFilter([filters EXCEPT !.daysOfWeek = w])

\* the record collections the store may answer with, by date descending
FilterData == {s \in BoundedSeq(FilterRecordSet, MaxRecords) : IsDateDesc(s)}

\* the first answer of the store arrives; the table does not change afterwards
LoadRecords(records) ==
    /\ salesData = <<>>
    /\ SetSalesData(records)

NextFilter ==
    \/ \E records \in FilterData : LoadRecords(records)
    \/ \E r \in DateRanges : SetDateRange(r)
    \/ \E m \in Months : SetSelectedMonth(m)
    \/ \E b \in BranchSets : SetBranches(b)
    \/ \E c \in ChannelSets : SetChannels(c)
    \/ \E w \in DaySets : SetDaysOfWeek(w)

SpecFilter == InitPure /\ [][NextFilter]_vars

-----------------------------------------------------------------------------
(* Properties of calculateMetrics, checked under SpecMetrics *)

\* the sum of a sequence of numbers, from its head
RECURSIVE SumNums(_)
SumNums(s) == IF s = <<>> THEN Num(0) ELSE Add(Head(s), SumNums(Tail(s)))

Field(s, name) == [i \in 1..Len(s) |-> s[i][name]]

\* the records of data for one branch and channel
Matching(data, branch, channel) ==
    SelectSeq(data, LAMBDA d : d.branch_name = branch /\ d.channel_name = channel)

\* C1: the overall totalSales, totalOrders and totalTarget are the sums of the
\* branch totals, and each branch's totalSales and totalOrders are the sums of
\* sales and orders over its channels list.
C1_SumInvariant ==
    LET m == metrics
        bm == m.branchMetrics
    IN  /\ m.totalSales = SumNums(Field(bm, "totalSales"))
        /\ m.totalOrders = SumNums(Field(bm, "totalOrders"))
        /\ m.totalTarget = SumNums(Field(bm, "totalTarget"))
        /\ \A i \in 1..Len(bm) :
              /\ bm[i].totalSales = SumNums(Field(bm[i].channels, "sales"))
              /\ bm[i].totalOrders = SumNums(Field(bm[i].channels, "orders"))

\* two channels of branch A contribute and branch B has an override
C1_Witness ==
    LET m == metrics
    IN  /\ m.totalSales = Num(150)
        /\ m.totalOrders = Num(3)
        /\ m.branchMetrics[1].totalSales = Num(150)
        /\ m.branchMetrics[1].channels[1].sales = Num(100)
        /\ m.branchMetrics[1].channels[2].sales = Num(50)
        /\ m.branchMetrics[1].totalTarget = Num(50)
        /\ m.branchMetrics[2].totalTarget = Num(1000)
        /\ m.totalTarget = Num(1050)

\* C2: a branch's totalTarget is the override map's value whenever the map has
\* the branch (an override of 0 included), and the sum of the branch's channel
\* targets only when the map has no entry for it.
C2_OverridePrecedence ==
    LET m == metrics
    IN  \A i \in 1..Len(BRANCHES) :
            LET b == m.branchMetrics[i]
            IN  IF BRANCHES[i] \in DOMAIN targetsMap
                THEN b.totalTarget = targetsMap[BRANCHES[i]]
                ELSE b.totalTarget = SumNums(Field(b.channels, "target"))

\* branch A: override 0 against a channel-derived 50; branch B: no override
C2_Witness ==
    /\ DOMAIN targetsMap = {"A"}
    /\ targetsMap["A"] = Num(0)
    /\ LET m == metrics
       IN  /\ SumNums(Field(m.branchMetrics[1].channels, "target")) = Num(50)
           /\ m.branchMetrics[1].totalTarget = Num(0)
           /\ m.branchMetrics[2].totalTarget = Num(20)

\* the part of a summary that the override map must not reach
FrameView(m) ==
    [totalSales |-> m.totalSales,
     totalOrders |-> m.totalOrders,
     overallAov |-> m.overallAov,
     branches |-> [i \in 1..Len(m.branchMetrics) |->
                      [channels |-> m.branchMetrics[i].channels,
                       totalSales |-> m.branchMetrics[i].totalSales,
                       totalOrders |-> m.branchMetrics[i].totalOrders,
                       aov |-> m.branchMetrics[i].aov]]]

\* C3: with the records fixed, every override map gives the same channel
\* metrics and the same branch totalSales, totalOrders and aov; only
\* totalTarget and the achievement of the branch and of the whole may differ.
C3_OverrideFrame ==
    LET data == filteredData
        view == FrameView(calculateMetrics(data, targetsMap))
    IN  \A map \in TargetMaps : FrameView(calculateMetrics(data, map)) = view

\* the override 1000 moves branch A's achievement from 300 to 15 while the
\* channel targets stay 50 and 0
C3_Witness ==
    /\ "A" \in DOMAIN targetsMap
    /\ targetsMap["A"] = Num(1000)
    /\ LET a == metrics.branchMetrics[1]
       IN  /\ a.totalSales = Num(150)
           /\ a.achievementPercentage = Num(15)
           /\ a.channels[1].target = Num(50)
           /\ a.channels[1].achievementPercentage = Num(200)
           /\ a.channels[2].target = Num(0)
           /\ calculateMetrics(filteredData, EmptyMap).branchMetrics[1]
                  .achievementPercentage = Num(300)

\* every number of a summary
AllNumbers(m) ==
    {m.totalSales, m.totalOrders, m.totalTarget, m.overallAchievement, m.overallAov}
    \cup UNION {
        LET b == m.branchMetrics[i]
        IN  {b.totalSales, b.totalOrders, b.totalTarget, b.achievementPercentage, b.aov}
            \cup UNION {
                LET c == b.channels[j]
                IN  {c.sales, c.orders, c.target, c.achievementPercentage, c.aov}
                : j \in 1..Len(b.channels)}
        : i \in 1..Len(m.branchMetrics)}

\* aov is 0 where the orders are 0 and achievementPercentage is 0 where the
\* target is not greater than 0, at the three levels
ZeroGuards(m) ==
    /\ m.totalOrders = Num(0) => m.overallAov = Num(0)
    /\ ~GtZero(m.totalTarget) => m.overallAchievement = Num(0)
    /\ \A i \in 1..Len(m.branchMetrics) :
          LET b == m.branchMetrics[i]
          IN  /\ b.totalOrders = Num(0) => b.aov = Num(0)
              /\ ~GtZero(b.totalTarget) => b.achievementPercentage = Num(0)
              /\ \A j \in 1..Len(b.channels) :
                    LET c == b.channels[j]
                    IN  /\ c.orders = Num(0) => c.aov = Num(0)
                        /\ ~GtZero(c.target) => c.achievementPercentage = Num(0)

\* C4: the zero-guards hold at channel, branch and overall level, and no
\* number of the summary is NaN or an infinity.
C4_ZeroGuard ==
    LET m == metrics
    IN  /\ ZeroGuards(m)
        /\ \A x \in AllNumbers(m) : IsFinite(x)

\* the part of C4 that the code keeps: the guards themselves, and no infinity
C4_GuardsOnly ==
    LET m == metrics
    IN  /\ ZeroGuards(m)
        /\ \A x \in AllNumbers(m) : x # Infinity /\ x # NegInfinity

\* C6: a summary has one BranchMetrics per branch of BRANCHES, in that order,
\* each with one ChannelMetrics per channel of CHANNELS, in that order, whatever
\* the records hold; a branch or channel without a record has sales, orders and
\* channel target 0.
C6_FixedEnumeration ==
    LET bm == metrics.branchMetrics
    IN
    /\ Len(bm) = Len(BRANCHES)
    /\ \A i \in 1..Len(BRANCHES) :
          LET b == bm[i]
          IN  /\ b.branchName = BRANCHES[i]
              /\ Len(b.channels) = Len(CHANNELS)
              /\ \A j \in 1..Len(CHANNELS) :
                    /\ b.channels[j].channelName = CHANNELS[j]
                    /\ Matching(filteredData, BRANCHES[i], CHANNELS[j]) = <<>> =>
                          /\ b.channels[j].sales = Num(0)
                          /\ b.channels[j].orders = Num(0)
                          /\ b.channels[j].target = Num(0)
              /\ (\A j \in 1..Len(CHANNELS) :
                      Matching(filteredData, BRANCHES[i], CHANNELS[j]) = <<>>) =>
                    b.totalSales = Num(0) /\ b.totalOrders = Num(0)

\* the records name only branch B, channel Y first and then X: branch A and
\* channel X still come first
C6_Witness ==
    /\ Len(salesData) = 2
    /\ salesData[1].branch_name = "B" /\ salesData[1].channel_name = "Y"
    /\ salesData[2].branch_name = "B" /\ salesData[2].channel_name = "X"
    /\ LET bm == metrics.branchMetrics
       IN  /\ bm[1].branchName = "A"
           /\ bm[1].totalSales = Num(0)
           /\ bm[2].channels[1].channelName = "X"
           /\ bm[2].totalSales = Num(70)

-----------------------------------------------------------------------------
(* Properties of the summary exposed by the hook, checked under Spec *)

\* C5 as claimed: the summary is null whenever the records handed to the
\* aggregation are empty, also when salesData holds records that the filters
\* exclude.
C5_NullWhenFilteredEmpty == Len(filteredData) = 0 => summary = NullSummary

\* every sales and orders number of a summary is 0
ZeroedSales(m) ==
    /\ m.totalSales = Num(0) /\ m.totalOrders = Num(0)
    /\ \A i \in 1..Len(m.branchMetrics) :
          /\ m.branchMetrics[i].totalSales = Num(0)
          /\ m.branchMetrics[i].totalOrders = Num(0)
          /\ \A j \in 1..Len(m.branchMetrics[i].channels) :
                /\ m.branchMetrics[i].channels[j].sales = Num(0)
                /\ m.branchMetrics[i].channels[j].orders = Num(0)

\* C5 as amended: the summary is null exactly when salesData, the records
\* held before filtering, is empty; when salesData holds records and the
\* filters exclude all of them the summary is a structure of zeroed metrics.
C5_NullIffNoRecords ==
    LET s == summary
    IN  /\ s = NullSummary <=> Len(salesData) = 0
        /\ Len(salesData) > 0 /\ Len(filteredData) = 0 => ZeroedSales(s)

\* records are held, the filters exclude them all, an override is in place
C5_Witness ==
    /\ Len(salesData) = 2
    /\ filters.selectedMonth = M02 /\ filters.branches = {"A"}
    /\ Len(filteredData) = 0
    /\ summary # NullSummary
    /\ summary.totalSales = Num(0)
    /\ summary.totalTarget = Num(1000)

-----------------------------------------------------------------------------
(* Properties of filteredData, checked under SpecFilter *)

\* the calendar: the days of the modelled dates, 0 = Sunday .. 6 = Saturday
KnownWeekday(date) ==
    CASE date = D0229 -> 4
      [] date = D0301 -> 5
      [] date = D0302 -> 6

IsKnownDay(date) == date \in {D0229, D0301, D0302}

\* the date lies in the closed interval [from, to], to standing for from when absent
InClosedInterval(date, range) ==
    /\ IsKnownDay(date)
    /\ LET day == parseISO(date).day
           last == IF range.to.k = "date" THEN range.to.day ELSE range.from.day
       IN  range.from.day <= day /\ day <= last

\* the logical AND of the active predicates of a filter state
SatisfiesActive(r, f) ==
    /\ (f.dateRange.defined /\ f.dateRange.from.k = "date") =>
           InClosedInterval(r.date, f.dateRange)
    /\ f.selectedMonth # NoMonth =>
           /\ Len(r.date) >= Len(f.selectedMonth)
           /\ SubSeq(r.date, 1, Len(f.selectedMonth)) = f.selectedMonth
    /\ f.branches # {} => r.branch_name \in f.branches
    /\ f.channels # {} => r.channel_name \in f.channels
    /\ f.daysOfWeek # {} => IsKnownDay(r.date) /\ KnownWeekday(r.date) \in f.daysOfWeek

\* C7 as claimed: filteredData holds, in order, exactly the records that
\* satisfy the AND of the active predicates; inactive fields do not restrict.
C7_ExactlyActivePredicates ==
    filteredData = SelectSeq(salesData, LAMBDA r : SatisfiesActive(r, filters))

\* C7 as amended: filteredData holds, in order, exactly the records that have
\* a date and satisfy the AND of the active predicates.
C7_DatedAndActivePredicates ==
    filteredData =
        SelectSeq(salesData,
                  LAMBDA r : r.date # NoDateString /\ SatisfiesActive(r, filters))

\* the five fields are all active and keep one record of two
C7_Witness ==
    /\ HasFrom(filters)
    /\ filters.selectedMonth # NoMonth
    /\ filters.branches # {} /\ filters.channels # {} /\ filters.daysOfWeek # {}
    /\ Len(salesData) = 2
    /\ Len(filteredData) = 1
    /\ filteredData[1] = salesData[2]

\* the filter states applied second in C8
SecondFilters ==
    {FilterState(r, m, b, c, w) :
        r \in {NoRange, RangeOf(Day0229, Day0301)}, m \in {NoMonth, M03},
        b \in {{}, {"A"}}, c \in {{}, {"X"}}, w \in {{}, {5}}}

C9_ClosedInterval ==
    HasFrom(filters) =>
        /\ \A i \in 1..Len(salesData) :
              PassesDateRange(salesData[i], filters)
                  <=> InClosedInterval(salesData[i].date, filters.dateRange)
        /\ filters = [NoFilters EXCEPT !.dateRange = filters.dateRange] =>
              filteredData =
                  SelectSeq(salesData,
                            LAMBDA r : InClosedInterval(r.date, filters.dateRange))

\* to is absent: of a record on the from day and one on the next day only the
\* first passes
C9_Witness ==
    /\ filters = [NoFilters EXCEPT !.dateRange = RangeOf(Day0301, UndefinedDate)]
    /\ Len(salesData) = 2
    /\ salesData[1].date = D0302 /\ salesData[2].date = D0301
    /\ filteredData = <<salesData[2]>>

\* C10: no record of filteredData has a missing or unparsable date.
C10_NoBadDate ==
    \A i \in 1..Len(filteredData) :
        /\ filteredData[i].date # NoDateString
        /\ parseISO(filteredData[i].date).k = "date"

-----------------------------------------------------------------------------
(* Properties of the target overrides in the hook, checked under Spec *)

\* the branch totalTarget is the sum of the branch's channel targets
BottomUpTargets(m) ==
    \A i \in 1..Len(m.branchMetrics) :
        m.branchMetrics[i].totalTarget =
            SumNums(Field(m.branchMetrics[i].channels, "target"))

\* C11: while filters.selectedMonth is absent no query of the target table is
\* made for it, and every branch totalTarget of the summary is the sum of the
\* branch's channel targets.
C11_NoQueryNoOverride ==
    /\ \A i \in 1..Len(targetReqs) : targetReqs[i] # NoMonth
    /\ (filters.selectedMonth = NoMonth /\ summary # NullSummary) =>
          BottomUpTargets(summary)

\* C17: once every pending getTargets call has resolved, targetsMap holds the
\* targets of the month that is selected (or none, when that call failed).
C17_LatestMonthWins ==
    targetReqs = <<>> =>
        targetsMap \in {TargetRows(branch_targets, TargetMonth(filters.selectedMonth)),
                        EmptyMap}

-----------------------------------------------------------------------------
(* Properties of fetchData, checked under Spec *)

\* C15: a step in which a fetchData call fails sets error to a message and
\* leaves salesData, and with it the summary (a function of salesData, filters
\* and targetsMap), as they were; a fetchData call made
\* afterwards clears error as it starts, and when no call is in flight and no
\* error is shown salesData holds the rows of the store.
C15_RecoverableError ==
    [][/\ (fetches' = fetches - 1 /\ error = NoError /\ error' # NoError) =>
            /\ error' \in {MessageOf(err) : err \in FetchFailures}
            /\ salesData' = salesData
            /\ filters' = filters /\ targetsMap' = targetsMap
       /\ fetches' = fetches + 1 => error' = NoError
       /\ (fetches' = fetches - 1 /\ salesData' # salesData) =>
            /\ salesData' \in QueryResults(store)
            /\ error' = error
       /\ (fetches' = 0 /\ error' = NoError) =>
            salesData' \in QueryResults(store')]_vars

\* a fetch has failed after records were loaded: the error is shown next to
\* the records and their summary
C15_Witness ==
    /\ fetches = 0
    /\ error = FetchErrorMessage
    /\ ~isLoading
    /\ Len(salesData) = 2
    /\ salesData \in QueryResults(store)
    /\ summary # NullSummary

\* C20: isLoading is true while a fetchData call is in flight, and false once
\* none is.
C20_LoadingWhileInFlight ==
    /\ fetches > 0 => isLoading
    /\ fetches = 0 => ~isLoading

-----------------------------------------------------------------------------
(* Properties of calculateMetrics on malformed and absent input, under SpecMetrics *)

\* the number a field stands for, 0 when it is missing or not numeric
ZeroIfMalformed(x) ==
    IF x.t \in {"number", "numeric string"} THEN Num(x.v) ELSE Num(0)

ZeroedSum(data, name) ==
    SumNums([k \in 1..Len(data) |-> ZeroIfMalformed(data[k][name])])

\* C12: a missing or non-numeric sales_value, orders_count or target_value
\* counts as 0 in the channel sums and in the overall sums, the other records
\* counting in full.
C12_MalformedCountsZero ==
    LET m == metrics
        data == filteredData
    IN  /\ m.totalSales = ZeroedSum(data, "sales_value")
        /\ m.totalOrders = ZeroedSum(data, "orders_count")
        /\ \A i \in 1..Len(BRANCHES) : \A j \in 1..Len(CHANNELS) :
              LET c == m.branchMetrics[i].channels[j]
                  rows == Matching(data, BRANCHES[i], CHANNELS[j])
              IN  /\ c.sales = ZeroedSum(rows, "sales_value")
                  /\ c.orders = ZeroedSum(rows, "orders_count")
                  /\ c.target = ZeroedSum(rows, "target_value")

\* the branches that have a record in data
BranchesWithRecords(data) ==
    {i \in 1..Len(BRANCHES) : \E k \in 1..Len(data) : data[k].branch_name = BRANCHES[i]}

\* C19: the overall totalSales, totalOrders and totalTarget are the sums over
\* the branches that have a record in filteredData: a branch without one
\* contributes 0, whatever the override map holds for it.
C19_AbsentBranchContributesZero ==
    LET m == metrics
        present == BranchesWithRecords(filteredData)
        bm == SelectSeq(m.branchMetrics,
                        LAMBDA b : \E i \in present : BRANCHES[i] = b.branchName)
    IN  /\ m.totalSales = SumNums(Field(bm, "totalSales"))
        /\ m.totalOrders = SumNums(Field(bm, "totalOrders"))
        /\ m.totalTarget = SumNums(Field(bm, "totalTarget"))

-----------------------------------------------------------------------------
(* Properties of the privileged flag, checked under SpecGate *)

\* C13: for a user who is not privileged no uploadData call and no call of
\* the target editor is ever started and the two tables stay as they were;
\* whoever the user is, records held give a summary.
C13_WritesGated ==
    /\ ~userIsAdmin =>
          /\ upload = NoUpload
          /\ targetsCall = NoTargetsCall
          /\ store = <<GateRecord>>
          /\ branch_targets = GateTable
    /\ salesData # <<>> => summary # NullSummary

\* a signed-in viewer sees the summary of the stored record
C13_Witness ==
    /\ userEmail = ViewerEmail
    /\ ~userIsAdmin
    /\ ~UploadOffered /\ ~TargetEditorShown
    /\ fetches = 0
    /\ summary # NullSummary
    /\ summary.totalSales = Num(100)
    /\ summary.totalTarget = Num(1000)

-----------------------------------------------------------------------------
(* Properties of uploadData, checked under SpecUpload *)

\* the number of chunks of at most CHUNK_SIZE that n records take
ChunkCount(n) == (n + CHUNK_SIZE - 1) \div CHUNK_SIZE

\* the requests of a bulk replace: one delete, the records as consecutive
\* chunks in input order, one select
ExpectedLog(records) ==
    <<Request("delete", <<>>)>>
    \o [k \in 1..ChunkCount(Len(records)) |->
           Request("insert",
                   SubSeq(records, (k - 1) * CHUNK_SIZE + 1,
                          Min(k * CHUNK_SIZE, Len(records))))]
    \o <<Request("select", <<>>)>>

IsPrefix(a, b) == Len(a) <= Len(b) /\ SubSeq(b, 1, Len(a)) = a

\* the rows of the insert requests of a log, in order
RECURSIVE InsertedRows(_)
InsertedRows(log) ==
    IF log = <<>> THEN <<>>
    ELSE (IF Head(log).op = "insert" THEN Head(log).rows ELSE <<>>)
         \o InsertedRows(Tail(log))

\* C14: the requests of an uploadData call are, in this order, the delete,
\* the inserts of the records as consecutive chunks of 1..CHUNK_SIZE records in
\* input order, and the select of the refetch; each record is in one chunk;
\* between the delete and the select the store holds the chunks inserted so
\* far, and from the refetch on, also after the call has returned true, the
\* store holds exactly the uploaded records.
C14_BulkReplaceOrder ==
    /\ IsPrefix(upload.log, ExpectedLog(upload.records))
    /\ \A k \in 1..Len(upload.log) :
          upload.log[k].op = "insert" => Len(upload.log[k].rows) \in 1..CHUNK_SIZE
    /\ IsPrefix(InsertedRows(upload.log), upload.records)
    /\ upload.pc = "insert" => store = InsertedRows(upload.log)
    /\ (upload.pc = "refetch" \/ upload.result = "true") =>
          /\ upload.log = ExpectedLog(upload.records)
          /\ InsertedRows(upload.log) = upload.records
          /\ store = upload.records

\* three records replaced one stored record in two chunks and the call
\* returned true
C14_Witness ==
    /\ upload.pc = "idle" /\ upload.result = "true"
    /\ Len(upload.records) = 3
    /\ Len(upload.before) = 1
    /\ Len(upload.log) = 4
    /\ Len(upload.log[2].rows) = 2 /\ Len(upload.log[3].rows) = 1
    /\ store = upload.records

\* C18: after an uploadData call has returned false the store holds the
\* records it held before the call, and once no fetch is in flight and no
\* error is shown salesData holds the rows of the store.
C18_AllOrNothing ==
    upload.result = "false" =>
        /\ store = upload.before
        /\ (fetches = 0 /\ error = NoError) => salesData \in QueryResults(store)

-----------------------------------------------------------------------------
(* Properties of initializeDefaultTargets, checked under SpecTargets *)

\* C16: after initializeDefaultTargets every target row that existed for the
\* current month when it was called is still there with its value.
C16_ExistingRowsKept ==
    (targetsCall.op = "initializeDefaultTargets" /\ targetsCall.pc = "idle") =>
        \A k \in DOMAIN targetsCall.before :
            k[2] = CurrentMonth =>
                /\ k \in DOMAIN branch_targets
                /\ branch_targets[k] = targetsCall.before[k]

====
